---- MODULE Spec2Model ----
(***************************************************************************)
(* A model of PatrykGorol/SudokuSolver: the Sudoku grid model (sudoku.py), *)
(* the propagation + backtracking engine (solver.py), the host's gating    *)
(* (gui.py Window.solve / get_result) and the simple backtracking solver   *)
(* (sudokusolver.py).                                                      *)
(*                                                                         *)
(* Cells are <<row, column>> with 0-based indices as in the source; a grid *)
(* is a function from cells to 0..9.  Python lists are sequences, Python   *)
(* dicts are sequences of [k, v] entries in insertion order.               *)
(***************************************************************************)
EXTENDS Integers, Sequences, FiniteSets, TLC

Idx == 0..8
Pos == Idx \X Idx
Digits == 1..9

----------------------------------------------------------------------------
(* Generic helpers on sequences and sets.                                  *)

Range(seq) == {seq[i] : i \in 1..Len(seq)}

Min(S) == CHOOSE x \in S : \A y \in S : x <= y

Asc(S) ==
    [n \in 1..Cardinality(S) |->
        CHOOSE x \in S : Cardinality({y \in S : y < x}) = n - 1]

RECURSIVE Concat(_)
Concat(seqs) == IF seqs = <<>> THEN <<>> ELSE Head(seqs) \o Concat(Tail(seqs))

RECURSIVE Sum(_)
Sum(seq) == IF seq = <<>> THEN 0 ELSE Head(seq) + Sum(Tail(seq))

Dedup(seq) ==
    LET first == Asc({i \in 1..Len(seq) : \A j \in 1..(i - 1) : seq[j] # seq[i]})
    IN [n \in 1..Len(first) |-> seq[first[n]]]

Remove(seq, x) ==
    LET hits == {i \in 1..Len(seq) : seq[i] = x}
    IN IF hits = {} THEN seq
       ELSE SubSeq(seq, 1, Min(hits) - 1) \o SubSeq(seq, Min(hits) + 1, Len(seq))

(* The cells of a rectangle in row-major order: the order of numpy's       *)
(* array[rs:re, cs:ce] and of np.where on it.  A slice bound beyond the    *)
(* grid (column_stop = 10 of a row) is clamped, as numpy does.             *)
SlicePositions(rs, re, cs, ce) ==
    Concat([i \in 1..(IF re > 9 THEN 9 ELSE re) - rs |->
              [j \in 1..(IF ce > 9 THEN 9 ELSE ce) - cs |-> <<rs + i - 1, cs + j - 1>>]])

AllPositions == SlicePositions(0, 9, 0, 9)

(* A grid from a 9x9 literal (row-major, as the input adapter gives it).   *)
Grid(rows) == [p \in Pos |-> rows[p[1] + 1][p[2] + 1]]

----------------------------------------------------------------------------
(* CPython's iteration order of a set of small ints (hash(i) = i), built   *)
(* by adding the members of seq one by one: an 8-slot table probed by      *)
(* i -> 5i+1 mod 8, rebuilt as a 32-slot table (ascending order) once it   *)
(* holds five members.  search_for_available_positions iterates such sets. *)
Probe(i) == (5 * i + 1) % 8

RECURSIVE FreeSlot(_, _)
FreeSlot(table, i) == IF table[i] = -1 THEN i ELSE FreeSlot(table, Probe(i))

RECURSIVE SmallTable(_)
SmallTable(seq) ==
    IF seq = <<>> THEN [i \in 0..7 |-> -1]
    ELSE LET t == SmallTable(SubSeq(seq, 1, Len(seq) - 1))
             x == seq[Len(seq)]
         IN [t EXCEPT ![FreeSlot(t, x % 8)] = x]

SetOrder(seq) ==
    LET members == Dedup(seq)
        t == SmallTable(members)
    IN IF Len(members) >= 5 THEN Asc(Range(members))
       ELSE LET used == SelectSeq([i \in 1..8 |-> i - 1], LAMBDA i : t[i] # -1)
            IN [n \in 1..Len(used) |-> t[used[n]]]

(* set(members).difference(other), iterated.                               *)
SetDifferenceOrder(members, other) ==
    SetOrder(SelectSeq(SetOrder(members), LAMBDA x : x \notin other))

----------------------------------------------------------------------------
(* sudoku.py: SudokuElement, SudokuRow, SudokuColumn, Sudoku.              *)

square_coordinates ==
    << <<0, 3, 0, 3>>, <<0, 3, 3, 6>>, <<0, 3, 6, 9>>,
       <<3, 6, 0, 3>>, <<3, 6, 3, 6>>, <<3, 6, 6, 9>>,
       <<6, 9, 0, 3>>, <<6, 9, 3, 6>>, <<6, 9, 6, 9>> >>

(* An element (unit) is named by the list that holds it and its index.     *)
ElementLists == <<"rows", "columns", "squares">>

Elements == {"rows", "columns", "squares"} \X Idx

SudokuElement(row_start, row_stop, column_start, column_stop) ==
    [row_start |-> row_start, row_stop |-> row_stop,
     column_start |-> column_start, column_stop |-> column_stop]

SudokuRow(row_index) == SudokuElement(row_index, row_index + 1, 0, 10)

SudokuColumn(column_index) == SudokuElement(0, 10, column_index, column_index + 1)

Coords(e) ==
    IF e[1] = "rows" THEN SudokuRow(e[2])
    ELSE IF e[1] = "columns" THEN SudokuColumn(e[2])
    ELSE LET k == square_coordinates[e[2] + 1]
         IN SudokuElement(k[1], k[2], k[3], k[4])

(* array[element.row_start:element.row_stop, column_start:column_stop]     *)
ElementPositions(e) ==
    LET c == Coords(e)
    IN SlicePositions(c.row_start, c.row_stop, c.column_start, c.column_stop)

ElementArray(array, e) ==
    LET ps == ElementPositions(e) IN [i \in 1..Len(ps) |-> array[ps[i]]]

CountNonzero(seq) == Cardinality({i \in 1..Len(seq) : seq[i] # 0})

CountOf(seq, x) == Cardinality({i \in 1..Len(seq) : seq[i] = x})

set_zero_positions(array) == SelectSeq(AllPositions, LAMBDA p : array[p] = 0)

(* sorted(elements_count.items(), key=count, reverse=True): a stable sort, *)
(* so entries of equal count keep their order.                             *)
SortedByCount(items) ==
    LET before(i, j) == \/ items[j].v > items[i].v
                        \/ items[j].v = items[i].v /\ j < i
        rank(i) == Cardinality({j \in 1..Len(items) : before(i, j)}) + 1
    IN [n \in 1..Len(items) |-> items[CHOOSE i \in 1..Len(items) : rank(i) = n]]

Keys(dict) == [i \in 1..Len(dict) |-> dict[i].k]

Lookup(dict, key) == dict[CHOOSE i \in 1..Len(dict) : dict[i].k = key].v

Store(dict, key, value) ==
    [i \in 1..Len(dict) |-> IF dict[i].k = key THEN [k |-> key, v |-> value] ELSE dict[i]]

set_available_digits(s) ==
    LET sorted == SortedByCount(s.elements_count)
    IN [s EXCEPT !.elements_count = sorted,
                 !.available_digits =
                     Keys(SelectSeq(sorted, LAMBDA e : e.k > 0 /\ e.v < 9))]

set_elements_statistics(array, list) ==
    [i \in Idx |-> [completed |-> FALSE,
                    digits |-> CountNonzero(ElementArray(array, <<list, i>>))]]

(* Sudoku.__init__ followed by set_zero_positions and set_statistics.      *)
Sudoku(array) ==
    set_available_digits(
        [array |-> array,
         rows |-> set_elements_statistics(array, "rows"),
         columns |-> set_elements_statistics(array, "columns"),
         squares |-> set_elements_statistics(array, "squares"),
         elements_count |->
             [i \in 1..10 |->
                 [k |-> i - 1,
                  v |-> Cardinality({p \in Pos : array[p] = i - 1})]],
         available_digits |-> <<>>,
         unchecked_stack |-> {},
         zero_positions |-> set_zero_positions(array),
         possible_digits_in_cells |-> <<>>,
         changed |-> FALSE])

Element(s, e) == s[e[1]][e[2]]

(* SudokuElement.increment_digits                                          *)
increment_digits(element) ==
    IF element.completed THEN element
    ELSE [digits |-> element.digits + 1, completed |-> element.digits + 1 = 9]

----------------------------------------------------------------------------
(* solver.py: validation and completion checks.                            *)

(* Python's None: a value that is no digit, no index and no verdict. *)
None == -2

find_square(row_index, column_index) ==
    Min({sq_number \in Idx :
           /\ square_coordinates[sq_number + 1][1] <= row_index
           /\ row_index < square_coordinates[sq_number + 1][2]
           /\ square_coordinates[sq_number + 1][3] <= column_index
           /\ column_index < square_coordinates[sq_number + 1][4]})

check_if_one_occurence_of_digit(array, list) ==
    \A i \in Idx :
        LET a == ElementArray(array, <<list, i>>)
        IN \A digit \in {d \in Range(a) : d > 0} : ~(CountOf(a, digit) > 1)

(* check_occurences without its third test. *)
check_occurences_rows_columns(array) ==
    /\ check_if_one_occurence_of_digit(array, "rows")
    /\ check_if_one_occurence_of_digit(array, "columns")

check_occurences(array) ==
    /\ check_if_one_occurence_of_digit(array, "rows")
    /\ check_if_one_occurence_of_digit(array, "columns")
    /\ check_if_one_occurence_of_digit(array, "squares")

validate_sudoku(s) ==
    IF Lookup(s.elements_count, 0) = 81 THEN 0
    ELSE IF ~check_occurences(s.array) THEN -1
    ELSE 1

assert_sum_digits_in_element(array, list) ==
    \A i \in Idx : Sum(ElementArray(array, <<list, i>>)) = 45

(* Completion read from the elements' completed flags. *)
is_sudoku_completed_by_flags(s) ==
    \A e \in Elements : s[e[1]][e[2]].completed

is_sudoku_completed(s) ==
    /\ CountNonzero([i \in 1..81 |-> s.array[AllPositions[i]]]) = 81
    /\ assert_sum_digits_in_element(s.array, "rows")
    /\ assert_sum_digits_in_element(s.array, "columns")
    /\ assert_sum_digits_in_element(s.array, "squares")

----------------------------------------------------------------------------
(* solver.py: placing a digit.                                             *)

(* update_available_elements without line 150: the digit is not counted. *)
update_available_elements_not_counted(s, digit) == set_available_digits(s)

update_available_elements(s, digit) ==
    set_available_digits(
        [s EXCEPT !.elements_count = Store(@, digit, Lookup(@, digit) + 1)])

increment_digit_and_add_to_stack(s, e) ==
    [s EXCEPT ![e[1]][e[2]] = increment_digits(@),
              !.unchecked_stack = @ \cup {e}]

(* update_elements_statistics without the square of the cell. *)
update_row_and_column_statistics(s, row_index, column_index) ==
    increment_digit_and_add_to_stack(
        increment_digit_and_add_to_stack(s, <<"rows", row_index>>),
        <<"columns", column_index>>)

update_elements_statistics(s, row_index, column_index) ==
    LET s1 == increment_digit_and_add_to_stack(s, <<"rows", row_index>>)
        s2 == increment_digit_and_add_to_stack(s1, <<"columns", column_index>>)
    IN increment_digit_and_add_to_stack(
           s2, <<"squares", find_square(row_index, column_index)>>)

(* zero_positions.remove raises ValueError when the cell is not listed;    *)
(* the cell has been overwritten by then.                                  *)
insert_digit_raises(s, digit, pos) ==
    digit # None /\ pos \notin Range(s.zero_positions)

insert_digit(s, digit, pos) ==
    IF digit = None THEN s
    ELSE IF pos \notin Range(s.zero_positions)
    THEN [s EXCEPT !.array[pos] = digit]
    ELSE update_elements_statistics(
             update_available_elements(
                 [s EXCEPT !.array[pos] = digit,
                           !.zero_positions = Remove(@, pos)],
                 digit),
             pos[1], pos[2])

(* A mutant: the element's first cell, blank or not.                       *)
get_zero_coordinate_first_cell(array, e) == ElementPositions(e)[1]

get_zero_coordinate(array, e) ==
    LET ps == ElementPositions(e)
    IN ps[Min({i \in 1..Len(ps) : array[ps[i]] = 0})]

find_last_digit(s, values) ==
    LET missing == SelectSeq(s.available_digits, LAMBDA digit : digit \notin Range(values))
    IN IF missing = <<>> THEN None ELSE Head(missing)

(* fill_element places a digit exactly when this holds.                    *)
fills(s, e) ==
    /\ ~Element(s, e).completed
    /\ Element(s, e).digits = 8
    /\ find_last_digit(s, ElementArray(s.array, e)) # None

fill_element(s, e) ==
    IF Element(s, e).completed THEN s
    ELSE IF Element(s, e).digits = 8
    THEN insert_digit(s, find_last_digit(s, ElementArray(s.array, e)),
                      get_zero_coordinate(s.array, e))
    ELSE s

----------------------------------------------------------------------------
(* solver.py: the per-digit pass.                                          *)

(* A mutant: line 266 without its test "array[i] == 0".                    *)
search_for_available_positions_any_cell(s, digit) ==
    LET holders == {p \in Pos : s.array[p] = digit}
        zeros == s.zero_positions
        available_rows ==
            SetDifferenceOrder([i \in 1..Len(zeros) |-> zeros[i][1]],
                               {p[1] : p \in holders})
        available_cols ==
            SetDifferenceOrder([i \in 1..Len(zeros) |-> zeros[i][2]],
                               {p[2] : p \in holders})
    IN Concat([i \in 1..Len(available_rows) |->
                 [j \in 1..Len(available_cols) |->
                     <<available_rows[i], available_cols[j]>>]])

search_for_available_positions(s, digit) ==
    LET holders == {p \in Pos : s.array[p] = digit}
        zeros == s.zero_positions
        available_rows ==
            SetDifferenceOrder([i \in 1..Len(zeros) |-> zeros[i][1]],
                               {p[1] : p \in holders})
        available_cols ==
            SetDifferenceOrder([i \in 1..Len(zeros) |-> zeros[i][2]],
                               {p[2] : p \in holders})
        product ==
            Concat([i \in 1..Len(available_rows) |->
                      [j \in 1..Len(available_cols) |->
                          <<available_rows[i], available_cols[j]>>]])
    IN SelectSeq(product, LAMBDA p : s.array[p] = 0)

digit_in_square(s, digit, square_number) ==
    digit \in Range(ElementArray(s.array, <<"squares", square_number>>))

(* The dict square number -> open cells, keyed in order of first use.      *)
divide_positions_by_squares(s, available_positions, digit) ==
    LET kept == SelectSeq(available_positions,
                          LAMBDA p : ~digit_in_square(s, digit, find_square(p[1], p[2])))
        numbers == Dedup([i \in 1..Len(kept) |-> find_square(kept[i][1], kept[i][2])])
    IN [n \in 1..Len(numbers) |->
          [k |-> numbers[n],
           v |-> SelectSeq(kept, LAMBDA p : find_square(p[1], p[2]) = numbers[n])]]

positions_in_one_dimention(square_positions, flag) ==
    LET elements == {square_positions[i][flag + 1] : i \in 1..Len(square_positions)}
    IN IF Len(square_positions) = 1 THEN None
       ELSE IF Cardinality(elements) = 1 THEN CHOOSE x \in elements : TRUE
       ELSE None

(* "if element:" is false for None and for row/column 0 alike.             *)
delete_unavailable_coordinates(element, flag, positions_in_squares, square) ==
    IF element # None /\ element # 0
    THEN [n \in 1..Len(positions_in_squares) |->
            IF positions_in_squares[n].k = square THEN positions_in_squares[n]
            ELSE [k |-> positions_in_squares[n].k,
                  v |-> SelectSeq(positions_in_squares[n].v,
                                  LAMBDA coordinate : coordinate[flag + 1] # element)]]
    ELSE positions_in_squares

RECURSIVE update_from(_, _, _)
update_from(positions_in_squares, flag, n) ==
    IF n > Len(positions_in_squares) THEN positions_in_squares
    ELSE update_from(
             delete_unavailable_coordinates(
                 positions_in_one_dimention(positions_in_squares[n].v, flag),
                 flag, positions_in_squares, positions_in_squares[n].k),
             flag, n + 1)

update_positions_if_one_dimensional_positions_in_squares(positions_in_squares, flag) ==
    update_from(positions_in_squares, flag, 1)

get_positions_in_squares(s, digit) ==
    update_positions_if_one_dimensional_positions_in_squares(
        update_positions_if_one_dimensional_positions_in_squares(
            divide_positions_by_squares(
                s, search_for_available_positions(s, digit), digit),
            0),
        1)

(* The placements insert_digit_if_only_one_possible_position_in_square     *)
(* makes, in its order: <<cell, digit>> as in backtracking's               *)
(* insertion_list.                                                         *)
only_one_possible_position_in_square(digit, positions_in_squares) ==
    LET single == SelectSeq(positions_in_squares, LAMBDA e : Len(e.v) = 1)
    IN [n \in 1..Len(single) |-> <<single[n].v[1], digit>>]

potential_positions_of(positions_in_squares) ==
    Concat([n \in 1..Len(positions_in_squares) |-> positions_in_squares[n].v])

(* The second component of positions_in_one_row_or_column.                 *)
solutions_of(potential_positions) ==
    LET rows_count(r) == Cardinality({i \in 1..Len(potential_positions) :
                                        potential_positions[i][1] = r})
        columns_count(c) == Cardinality({i \in 1..Len(potential_positions) :
                                           potential_positions[i][2] = c})
    IN SelectSeq(potential_positions,
                 LAMBDA p : rows_count(p[1]) = 1 \/ columns_count(p[2]) = 1)

(* A mutant: the digit is recorded for every key of the dictionary.        *)
add_digit_to_blank_cells_all_keys(s, digit, potential_positions) ==
    [s EXCEPT !.possible_digits_in_cells =
        [i \in 1..Len(@) |-> [k |-> @[i].k, v |-> Append(@[i].v, digit)]]]

(* One append for every occurrence of the cell in potential_positions.     *)
add_digit_to_blank_cells(s, digit, potential_positions) ==
    LET times(cell) == Cardinality({j \in 1..Len(potential_positions) :
                                      potential_positions[j] = cell})
    IN [s EXCEPT !.possible_digits_in_cells =
            [i \in 1..Len(@) |->
                [k |-> @[i].k,
                 v |-> @[i].v \o [j \in 1..times(@[i].k) |-> digit]]]]

clear_possible_coordinates(s) ==
    [s EXCEPT !.possible_digits_in_cells =
        [i \in 1..Len(@) |-> [k |-> @[i].k, v |-> <<>>]]]

(* The single-candidate placements of check_blank_cells, in dict order.    *)
single_candidates(s) ==
    LET single == SelectSeq(s.possible_digits_in_cells, LAMBDA e : Len(e.v) = 1)
    IN IF Len(s.zero_positions) = 0 THEN <<>>
       ELSE [n \in 1..Len(single) |-> <<single[n].k, single[n].v[1]>>]

----------------------------------------------------------------------------
(* solver.py: backtracking helpers.                                        *)

(* A mutant: zero_positions is left in the order it has.                   *)
NotSortedByCandidates(s, cells) == cells

(* list.sort(key=len(candidates)): stable, ascending.                      *)
SortedByCandidates(s, cells) ==
    LET size(i) == Len(Lookup(s.possible_digits_in_cells, cells[i]))
        before(i, j) == \/ size(j) < size(i)
                        \/ size(j) = size(i) /\ j < i
        rank(i) == Cardinality({j \in 1..Len(cells) : before(i, j)}) + 1
    IN [n \in 1..Len(cells) |-> cells[CHOOSE i \in 1..Len(cells) : rank(i) = n]]

RECURSIVE potential_array(_, _)
potential_array(array, insertion_list) ==
    IF insertion_list = <<>> THEN array
    ELSE potential_array([array EXCEPT ![Head(insertion_list)[1]] = Head(insertion_list)[2]],
                         Tail(insertion_list))

(* The deep copy is restored on both paths, so only the verdict remains.   *)
check_occurences_in_potential_array(s, insertion_list) ==
    check_occurences(potential_array(s.array, insertion_list))

(* A mutant: self.s is left as lines 593-594 wrote it.                     *)
sudoku_after_check_occurences_not_restored(s, insertion_list) ==
    [s EXCEPT !.array = potential_array(s.array, insertion_list)]

(* self.s when check_occurences_in_potential_array returns: the deep copy  *)
(* of line 592, put back on both branches (lines 596 and 599) after the    *)
(* items were written into self.s.array.                                   *)
sudoku_after_check_occurences(s, insertion_list) ==
    LET backup_sudoku == s
        written == [s EXCEPT !.array = potential_array(s.array, insertion_list)]
    IN IF check_occurences(written.array) THEN backup_sudoku ELSE backup_sudoku

----------------------------------------------------------------------------
(* The solving session of gui.py's Window.solve: Sudoku(get_data()),       *)
(* SudokuSolver(sudoku), validate_sudoku, main_sequence, get_result.       *)

VARIABLES
    input,            \* the grid get_data() hands to Sudoku()
    s,                \* SudokuSolver.s, the Sudoku object
    counter,          \* SudokuSolver.counter
    validation,       \* Window.solve's validation (None before the call)
    result,           \* what get_result shows: "solved", "unsolvable" or "none"
    pc,               \* the statement the session is at
    ret,              \* the caller check_stack returns to
    ctx,              \* the caller the outermost solve() returns to
    pending,          \* placements left in the running for-loop
    elements_list,    \* pre_solving_check: 1 rows, 2 columns, 3 squares
    element_index,    \* check_elements: the element the for-loop is at
    digits_counter,   \* backtracking's locals
    cell_index,
    insertion_list,
    coordinate,
    backup_sudoku,    \* try_insert's deep copy
    last,             \* the latest placement: [cell, digit], or none
    stalled,          \* the array as it stood when backtracking() was called
    first,            \* the outcome of the session's first run, or none
    sudoku,           \* sudokusolver.py: SudokuSolver.sudoku
    empty_cells,      \* sudokusolver.py: SudokuSolver.empty_cells
    test_numbers,     \* sudokusolver.py: SudokuSolver.test_numbers
    simple_validation, \* what sudokusolver.py's validate_sudoku returned
    tick,             \* flips at every step taken
    pass_digit,       \* get_positions_in_squares: digit
    pass_positions,   \* get_positions_in_squares: positions_in_squares
    pass_flag,        \* update_positions_...: flag, 0 for row, 1 for column
    square_at         \* update_positions_...: where "for square in" is at

vars == <<input, s, counter, validation, result, pc, ret, ctx, pending,
          elements_list, element_index, digits_counter, cell_index,
          insertion_list, coordinate, backup_sudoku, last, stalled, first,
          sudoku, empty_cells, test_numbers, simple_validation, tick,
          pass_digit, pass_positions, pass_flag, square_at>>

NoPlacement == [cell |-> <<-1, -1>>, digit |-> 0]

NoOutcome == [result |-> "none", array |-> [p \in Pos |-> 0]]

backtracking_vars == <<digits_counter, cell_index, insertion_list, coordinate, backup_sudoku>>

check_elements_vars == <<elements_list, element_index>>

host_vars == <<input, validation, result, stalled, first>>

simple_vars == <<sudoku, empty_cells, test_numbers, simple_validation>>

pass_vars == <<pass_digit, pass_positions, pass_flag, square_at>>

(* insert_digit as a step: the placement, or the ValueError it ends in.    *)
Place(cell, digit, next_pc, set_changed) ==
    /\ s' = [insert_digit(s, digit, cell) EXCEPT
                !.changed = IF set_changed /\ ~insert_digit_raises(s, digit, cell)
                            THEN TRUE ELSE @]
    /\ last' = IF digit = None THEN NoPlacement ELSE [cell |-> cell, digit |-> digit]
    /\ pc' = IF insert_digit_raises(s, digit, cell) THEN "raised" ELSE next_pc

(* Window.solve rejecting the empty grid only. *)
ValidateRejectingEmpty ==
    /\ pc = "validate"
    /\ validation' = validate_sudoku(s)
    /\ pc' = IF validation' = 0 THEN "rejected" ELSE "main_sequence"
    /\ last' = NoPlacement
    /\ UNCHANGED <<input, s, counter, result, stalled, first, ret, ctx, pending>>
    /\ UNCHANGED <<check_elements_vars, backtracking_vars>>
    /\ UNCHANGED simple_vars
    /\ tick' = 1 - tick
    /\ UNCHANGED pass_vars

(* Window.solve, lines 128-136 *)
Validate ==
    /\ pc = "validate"
    /\ validation' = validate_sudoku(s)
    /\ pc' = IF validation' = 1 THEN "main_sequence" ELSE "rejected"
    /\ last' = NoPlacement
    /\ UNCHANGED <<input, s, counter, result, stalled, first, ret, ctx, pending>>
    /\ UNCHANGED <<check_elements_vars, backtracking_vars>>
    /\ UNCHANGED simple_vars
    /\ tick' = 1 - tick
    /\ UNCHANGED pass_vars

(* solve() called on the freshly built Sudoku, without main_sequence *)
SolveOnly ==
    /\ pc = "validate"
    /\ pc' = "solve"
    /\ ctx' = "solve"
    /\ last' = NoPlacement
    /\ UNCHANGED <<host_vars, s, counter, ret, pending>>
    /\ UNCHANGED <<check_elements_vars, backtracking_vars>>
    /\ UNCHANGED simple_vars
    /\ tick' = 1 - tick
    /\ UNCHANGED pass_vars

(* main_sequence, line 24; pre_solving_check starts with the rows *)
MainSequence ==
    /\ pc = "main_sequence"
    /\ IF is_sudoku_completed(s)
       THEN pc' = "get_result" /\ UNCHANGED check_elements_vars
       ELSE pc' = "check_elements" /\ elements_list' = 1 /\ element_index' = 0
    /\ last' = NoPlacement
    /\ UNCHANGED <<host_vars, s, counter, ret, ctx, pending, backtracking_vars>>
    /\ UNCHANGED simple_vars
    /\ tick' = 1 - tick
    /\ UNCHANGED pass_vars

(* check_elements: one turn of "for element in elements_list" *)
CheckElement ==
    /\ pc = "check_elements"
    /\ element_index <= 8
    /\ LET e == <<ElementLists[elements_list], element_index>>
       IN IF fills(s, e)
          THEN Place(get_zero_coordinate(s.array, e),
                     find_last_digit(s, ElementArray(s.array, e)),
                     "check_elements", FALSE)
          ELSE s' = fill_element(s, e) /\ last' = NoPlacement /\ pc' = pc
    /\ element_index' = element_index + 1
    /\ UNCHANGED <<host_vars, counter, ret, ctx, pending, elements_list, backtracking_vars>>
    /\ UNCHANGED simple_vars
    /\ tick' = 1 - tick
    /\ UNCHANGED pass_vars

(* check_elements: the for-loop is over, check_stack follows *)
CheckElementsEnd ==
    /\ pc = "check_elements"
    /\ element_index = 9
    /\ pc' = "check_stack"
    /\ ret' = "check_elements"
    /\ last' = NoPlacement
    /\ UNCHANGED <<host_vars, s, counter, ctx, pending, check_elements_vars, backtracking_vars>>
    /\ UNCHANGED simple_vars
    /\ tick' = 1 - tick
    /\ UNCHANGED pass_vars

(* check_stack: the stack is rebuilt from an unordered set of objects at   *)
(* every turn, so any of its elements may come first.  A turn on an        *)
(* element that fill_element leaves alone only pops it, and an element is  *)
(* pushed again whenever one of its cells is filled, so such turns         *)
(* commute with all others: they are folded into the turn that fills.      *)
CheckStackFill ==
    /\ pc = "check_stack"
    /\ \E e \in s.unchecked_stack :
          /\ fills(s, e)
          /\ Place(get_zero_coordinate(s.array, e),
                   find_last_digit(s, ElementArray(s.array, e)),
                   "check_stack", FALSE)
    /\ UNCHANGED <<host_vars, counter, ret, ctx, pending, check_elements_vars, backtracking_vars>>
    /\ UNCHANGED simple_vars
    /\ tick' = 1 - tick
    /\ UNCHANGED pass_vars

StackDrained == \A e \in s.unchecked_stack : ~fills(s, e)

(* check_stack returns to check_elements: the next list, or solve() *)
CheckStackReturnToCheckElements ==
    /\ pc = "check_stack" /\ ret = "check_elements" /\ StackDrained
    /\ s' = [s EXCEPT !.unchecked_stack = {}]
    /\ IF elements_list < 3
       THEN pc' = "check_elements" /\ elements_list' = elements_list + 1
            /\ element_index' = 0
       ELSE pc' = "solve" /\ UNCHANGED check_elements_vars
    /\ last' = NoPlacement
    /\ UNCHANGED <<host_vars, counter, ret, ctx, pending, backtracking_vars>>
    /\ UNCHANGED simple_vars
    /\ tick' = 1 - tick
    /\ UNCHANGED pass_vars

(* after_change_procedure, lines 370-373 *)
AfterChangeProcedure ==
    /\ pc = "check_stack" /\ ret = "after_change" /\ StackDrained
    /\ s' = clear_possible_coordinates([s EXCEPT !.unchecked_stack = {}])
    /\ counter' = 0
    /\ pc' = "solve_loop"
    /\ last' = NoPlacement
    /\ UNCHANGED <<host_vars, ret, ctx, pending, check_elements_vars, backtracking_vars>>
    /\ UNCHANGED simple_vars
    /\ tick' = 1 - tick
    /\ UNCHANGED pass_vars

(* check_stack_and_solve_again, lines 471-472 *)
CheckStackAndSolveAgain ==
    /\ pc = "check_stack" /\ ret = "solve_again" /\ StackDrained
    /\ s' = [s EXCEPT !.unchecked_stack = {}]
    /\ pc' = "solve"
    /\ last' = NoPlacement
    /\ UNCHANGED <<host_vars, counter, ret, ctx, pending, check_elements_vars, backtracking_vars>>
    /\ UNCHANGED simple_vars
    /\ tick' = 1 - tick
    /\ UNCHANGED pass_vars

(* solve, lines 214-215 *)
Solve ==
    /\ pc = "solve"
    /\ counter' = 0
    /\ s' = [s EXCEPT !.possible_digits_in_cells =
                [i \in 1..Len(s.zero_positions) |-> [k |-> s.zero_positions[i], v |-> <<>>]]]
    /\ pc' = "solve_loop"
    /\ last' = NoPlacement
    /\ UNCHANGED <<host_vars, ret, ctx, pending, check_elements_vars, backtracking_vars>>
    /\ UNCHANGED simple_vars
    /\ tick' = 1 - tick
    /\ UNCHANGED pass_vars

(* check_available_digits: one turn of solve's while-loop, up to its       *)
(* first placement                                                         *)
CheckAvailableDigits ==
    /\ pc = "solve_loop"
    /\ counter < Len(s.available_digits)
    /\ LET digit == s.available_digits[counter + 1]
           positions_in_squares == get_positions_in_squares(s, digit)
           in_squares == only_one_possible_position_in_square(digit, positions_in_squares)
           potential_positions == potential_positions_of(positions_in_squares)
           solutions == solutions_of(potential_positions)
       IN IF in_squares # <<>>
          THEN /\ pending' = in_squares
               /\ s' = [s EXCEPT !.changed = FALSE]
               /\ pc' = "insert_and_set_changed" /\ ret' = "after_change"
               /\ UNCHANGED counter
          ELSE IF solutions # <<>>
          THEN /\ pending' = [i \in 1..Len(solutions) |-> <<solutions[i], digit>>]
               /\ s' = [s EXCEPT !.changed = FALSE]
               /\ pc' = "insert_and_set_changed" /\ ret' = "after_change"
               /\ UNCHANGED counter
          ELSE /\ s' = add_digit_to_blank_cells([s EXCEPT !.changed = FALSE],
                                                digit, potential_positions)
               /\ counter' = counter + 1
               /\ UNCHANGED <<pc, ret, pending>>
    /\ last' = NoPlacement
    /\ UNCHANGED <<host_vars, ctx, check_elements_vars, backtracking_vars>>
    /\ UNCHANGED simple_vars
    /\ tick' = 1 - tick
    /\ UNCHANGED pass_vars

(* insert_and_set_changed: one turn of the for-loop of                     *)
(* insert_digit_if_only_one_possible_position_in_square, apply_solutions   *)
(* or check_blank_cells; check_stack follows the last one                  *)
InsertAndSetChanged ==
    /\ pc = "insert_and_set_changed"
    /\ Place(Head(pending)[1], Head(pending)[2],
             IF Len(pending) = 1 THEN "check_stack" ELSE pc, TRUE)
    /\ pending' = Tail(pending)
    /\ UNCHANGED <<host_vars, counter, ret, ctx, check_elements_vars, backtracking_vars>>
    /\ UNCHANGED simple_vars
    /\ tick' = 1 - tick
    /\ UNCHANGED pass_vars

(* check_blank_cells, lines 418-426: solve() returns when nothing changed  *)
CheckBlankCells ==
    /\ pc = "solve_loop"
    /\ ~(counter < Len(s.available_digits))
    /\ s' = [s EXCEPT !.changed = FALSE]
    /\ IF single_candidates(s) # <<>>
       THEN /\ pending' = single_candidates(s)
            /\ pc' = "insert_and_set_changed" /\ ret' = "solve_again"
       ELSE /\ pc' = CASE ctx = "main_sequence" -> "backtracking"
                       [] ctx = "try_insert" -> "try_insert_end"
                       [] OTHER -> "done"
            /\ UNCHANGED <<pending, ret>>
    /\ last' = NoPlacement
    /\ UNCHANGED <<host_vars, counter, ctx, check_elements_vars, backtracking_vars>>
    /\ UNCHANGED simple_vars
    /\ tick' = 1 - tick
    /\ UNCHANGED pass_vars

(* backtracking, lines 528-546 *)
Backtracking ==
    /\ pc = "backtracking"
    /\ IF Len(s.zero_positions) = 0
       THEN pc' = "get_result"
            /\ UNCHANGED <<s, digits_counter, cell_index, insertion_list>>
       ELSE LET sorted == SortedByCandidates(s, s.zero_positions)
            IN /\ s' = [s EXCEPT !.zero_positions = sorted]
               /\ digits_counter' = [i \in 1..Len(sorted) |-> [k |-> sorted[i], v |-> 0]]
               /\ cell_index' = 0
               /\ insertion_list' = <<>>
               /\ pc' = "backtracking_loop"
    /\ stalled' = s.array
    /\ last' = NoPlacement
    /\ UNCHANGED <<input, validation, result, first, counter, ret, ctx, pending,
                   check_elements_vars, coordinate, backup_sudoku>>
    /\ UNCHANGED simple_vars
    /\ tick' = 1 - tick
    /\ UNCHANGED pass_vars

(* backtracking: one turn of the while-loop, lines 547-587, up to          *)
(* try_insert's deep copy                                                  *)
BacktrackingLoop ==
    /\ pc = "backtracking_loop"
    /\ IF ~(cell_index < Len(s.zero_positions))
       THEN pc' = "get_result"
            /\ UNCHANGED <<s, digits_counter, cell_index, insertion_list, coordinate,
                           backup_sudoku, pending, ret, ctx>>
       ELSE LET coord == s.zero_positions[cell_index + 1]
                kept == SelectSeq(insertion_list, LAMBDA i : i[1] # coord)
                digit_index == Lookup(digits_counter, coord)
                candidates == Lookup(s.possible_digits_in_cells, coord)
                tried == Append(kept, <<coord, candidates[digit_index + 1]>>)
            IN /\ coordinate' = coord
               /\ IF ~(digit_index < Len(candidates))
                  THEN /\ digits_counter' = Store(digits_counter, coord, 0)
                       /\ cell_index' = cell_index - 1
                       /\ insertion_list' = kept
                       /\ pc' = IF cell_index - 1 < 0 THEN "get_result" ELSE pc
                       /\ UNCHANGED <<s, backup_sudoku, pending, ret, ctx>>
                  ELSE IF check_occurences_in_potential_array(s, tried)
                  THEN /\ s' = sudoku_after_check_occurences(s, tried)
                       /\ insertion_list' = tried
                       /\ backup_sudoku' = s'
                       /\ pending' = tried
                       /\ pc' = "try_insert"
                       /\ ret' = "solve_again"
                       /\ ctx' = "try_insert"
                       /\ UNCHANGED <<digits_counter, cell_index>>
                  ELSE /\ s' = sudoku_after_check_occurences(s, tried)
                       /\ insertion_list' = tried
                       /\ digits_counter' = Store(digits_counter, coord, digit_index + 1)
                       /\ UNCHANGED <<cell_index, pc, backup_sudoku, pending, ret, ctx>>
    /\ last' = NoPlacement
    /\ UNCHANGED <<host_vars, counter, check_elements_vars>>
    /\ UNCHANGED simple_vars
    /\ tick' = 1 - tick
    /\ UNCHANGED pass_vars

(* try_insert: one turn of "for item in insertion_list", line 605 *)
TryInsert ==
    /\ pc = "try_insert"
    /\ Place(Head(pending)[1], Head(pending)[2],
             IF Len(pending) = 1 THEN "check_stack" ELSE pc, FALSE)
    /\ pending' = Tail(pending)
    /\ UNCHANGED <<host_vars, counter, ret, ctx, check_elements_vars, backtracking_vars>>
    /\ UNCHANGED simple_vars
    /\ tick' = 1 - tick
    /\ UNCHANGED pass_vars

(* TryInsertEnd without lines 578-579: the failed trial is not counted. *)
TryInsertEndNotCounted ==
    /\ pc = "try_insert_end"
    /\ IF ~is_sudoku_completed(s)
       THEN /\ s' = backup_sudoku
            /\ pc' = "backtracking_loop"
       ELSE /\ pc' = "get_result"
            /\ UNCHANGED s
    /\ last' = NoPlacement
    /\ UNCHANGED <<host_vars, counter, ret, ctx, pending, check_elements_vars,
                   backtracking_vars>>
    /\ UNCHANGED simple_vars
    /\ tick' = 1 - tick
    /\ UNCHANGED pass_vars

(* TryInsertEnd without line 608: the deep copy is not put back. *)
TryInsertEndNotRestored ==
    /\ pc = "try_insert_end"
    /\ IF ~is_sudoku_completed(s)
       THEN /\ digits_counter' =
                  Store(digits_counter, coordinate, Lookup(digits_counter, coordinate) + 1)
            /\ cell_index' = cell_index + 1
            /\ pc' = "backtracking_loop"
       ELSE /\ pc' = "get_result"
            /\ UNCHANGED <<digits_counter, cell_index>>
    /\ last' = NoPlacement
    /\ UNCHANGED <<host_vars, s, counter, ret, ctx, pending, check_elements_vars,
                   insertion_list, coordinate, backup_sudoku>>
    /\ UNCHANGED simple_vars
    /\ tick' = 1 - tick
    /\ UNCHANGED pass_vars

(* TryInsertEnd with line 608 before the test of line 607: the deep copy *)
(* is put back whether or not the grid was completed.                    *)
TryInsertEndAlwaysRestored ==
    /\ pc = "try_insert_end"
    /\ s' = backup_sudoku
    /\ IF ~is_sudoku_completed(s)
       THEN /\ digits_counter' =
                  Store(digits_counter, coordinate, Lookup(digits_counter, coordinate) + 1)
            /\ cell_index' = cell_index + 1
            /\ pc' = "backtracking_loop"
       ELSE /\ pc' = "get_result"
            /\ UNCHANGED <<digits_counter, cell_index>>
    /\ last' = NoPlacement
    /\ UNCHANGED <<host_vars, counter, ret, ctx, pending, check_elements_vars,
                   insertion_list, coordinate, backup_sudoku>>
    /\ UNCHANGED simple_vars
    /\ tick' = 1 - tick
    /\ UNCHANGED pass_vars

(* try_insert, lines 607-610, and the lines 577-579 that follow it *)
TryInsertEnd ==
    /\ pc = "try_insert_end"
    /\ IF ~is_sudoku_completed(s)
       THEN /\ s' = backup_sudoku
            /\ digits_counter' =
                  Store(digits_counter, coordinate, Lookup(digits_counter, coordinate) + 1)
            /\ cell_index' = cell_index + 1
            /\ pc' = "backtracking_loop"
       ELSE /\ pc' = "get_result"
            /\ UNCHANGED <<s, digits_counter, cell_index>>
    /\ last' = NoPlacement
    /\ UNCHANGED <<host_vars, counter, ret, ctx, pending, check_elements_vars,
                   insertion_list, coordinate, backup_sudoku>>
    /\ UNCHANGED simple_vars
    /\ tick' = 1 - tick
    /\ UNCHANGED pass_vars

(* Window.get_result, lines 155-158 *)
GetResult ==
    /\ pc = "get_result"
    /\ result' = IF is_sudoku_completed(s) THEN "solved" ELSE "unsolvable"
    /\ pc' = "done"
    /\ last' = NoPlacement
    /\ UNCHANGED <<input, validation, stalled, first, s, counter, ret, ctx, pending,
                   check_elements_vars, backtracking_vars>>
    /\ UNCHANGED simple_vars
    /\ tick' = 1 - tick
    /\ UNCHANGED pass_vars

----------------------------------------------------------------------------
(* Inputs.  get_data() hands over whatever digits the 81 entries hold, so *)
(* the grids below cover the cases: complete, partly blank, empty,         *)
(* repeating a digit, and without a completion.                            *)

Solution ==
    Grid(<< <<8,1,9,5,7,3,4,2,6>>, <<4,2,6,8,1,9,5,7,3>>, <<5,7,3,4,2,6,8,1,9>>,
            <<6,8,1,9,5,7,3,4,2>>, <<9,5,7,3,4,2,6,8,1>>, <<3,4,2,6,8,1,9,5,7>>,
            <<1,3,4,2,9,5,7,6,8>>, <<2,9,5,7,6,8,1,3,4>>, <<7,6,8,1,3,4,2,9,5>> >>)

(* The cells that are blanked, in this order. *)
BlankOrder ==
    << <<6,0>>, <<6,1>>, <<6,2>>, <<6,3>>, <<6,4>>, <<6,5>>, <<6,6>>, <<6,8>>,
       <<7,1>>, <<7,2>>, <<7,3>>, <<7,4>>, <<7,5>>, <<7,6>>,
       <<8,0>>, <<8,1>>, <<8,2>>, <<8,3>>, <<8,4>>, <<8,5>>, <<8,6>>, <<8,7>>,
       <<6,7>>, <<7,0>>, <<7,7>>, <<7,8>>, <<8,8>> >>

MaxBlanks == 22

Blanked(n) ==
    [p \in Pos |-> IF \E i \in 1..n : BlankOrder[i] = p THEN 0 ELSE Solution[p]]

RECURSIVE Edited(_, _)
Edited(array, entries) ==
    IF entries = <<>> THEN array
    ELSE Edited([array EXCEPT ![Head(entries)[1]] = Head(entries)[2]], Tail(entries))

EmptyGrid == [p \in Pos |-> 0]

(* A digit repeated in a row and a square. *)
RepeatingGrid == Edited(Solution, << <<<<0,0>>, 1>> >>)

(* No completion: two digits of column 1 moved within the column, the     *)
(* cells they came from and their row neighbours in column 0 blank.       *)
SwappedGrid ==
    Edited(Solution, << <<<<0,1>>, 8>>, <<<<7,1>>, 2>>,
                        <<<<0,0>>, 0>>, <<<<7,0>>, 0>>, <<<<3,1>>, 0>>, <<<<1,1>>, 0>> >>)

(* No completion: a digit of the solution replaced by another one that    *)
(* repeats nothing among the givens.                                       *)
MisplacedGrid == Edited(Blanked(19), << <<<<6,2>>, 5>> >>)

(* No completion, and no blank cell without a candidate after the         *)
(* propagation.                                                            *)
SparseGrid ==
    Grid(<< <<0,0,0,0,7,0,4,0,6>>, <<0,2,6,0,0,0,0,7,0>>, <<5,1,3,4,0,0,8,0,0>>,
            <<0,0,1,9,0,0,3,4,0>>, <<0,0,0,0,0,0,6,0,0>>, <<0,4,2,6,0,0,0,5,0>>,
            <<0,3,4,2,0,0,0,0,0>>, <<0,0,0,0,6,0,0,0,0>>, <<0,0,0,0,0,0,2,0,0>> >>)

(* No completion: a given changed in row 7, and two elements that miss    *)
(* the same digits brought to 8 digits by one placement.                  *)
OrderGrid ==
    Edited(Solution, << <<<<7,6>>, 2>>,
                        <<<<2,8>>, 0>>, <<<<3,1>>, 0>>, <<<<4,0>>, 0>>, <<<<4,5>>, 0>>,
                        <<<<5,0>>, 0>>, <<<<7,0>>, 0>>, <<<<7,1>>, 0>>, <<<<8,6>>, 0>> >>)

(* Six completions; the propagation places nothing, and in square 5 the    *)
(* cells of column 8 are closed to 2 and 3 by the squares above and below. *)
PointingGrid ==
    Edited(Solution, << <<<<1,6>>, 0>>, <<<<1,7>>, 0>>, <<<<1,8>>, 0>>, <<<<2,0>>, 0>>,
                        <<<<2,2>>, 0>>, <<<<3,6>>, 0>>, <<<<3,8>>, 0>>, <<<<5,0>>, 0>>,
                        <<<<5,2>>, 0>>, <<<<5,7>>, 0>>, <<<<5,8>>, 0>>, <<<<7,0>>, 0>>,
                        <<<<7,2>>, 0>>, <<<<8,6>>, 0>>, <<<<8,8>>, 0>> >>)

(* No completion: the propagation places nothing and leaves (2,7) and      *)
(* (3,8) without a candidate, behind blank cells that have two or three.   *)
DeadEndGrid ==
    Grid(<< <<5,1,2,9,4,6,3,0,0>>, <<9,4,6,3,7,8,1,2,5>>, <<8,3,7,0,0,0,9,0,6>>,
            <<3,7,8,0,2,0,4,6,0>>, <<4,6,9,7,8,3,2,5,1>>, <<1,2,5,4,6,9,0,0,3>>,
            <<7,8,3,0,0,0,6,4,9>>, <<6,9,4,8,3,7,5,1,2>>, <<2,5,1,6,9,4,0,3,0>> >>)

Inputs ==
    {Blanked(n) : n \in 0..MaxBlanks}
        \cup {EmptyGrid, RepeatingGrid, SwappedGrid, MisplacedGrid, SparseGrid,
              OrderGrid, PointingGrid, DeadEndGrid}

Init ==
    /\ input \in Inputs
    /\ s = Sudoku(input)
    /\ counter = 0
    /\ validation = None
    /\ result = "none"
    /\ pc = "validate"
    /\ ret = "none"
    /\ ctx = "main_sequence"
    /\ pending = <<>>
    /\ elements_list = 1
    /\ element_index = 0
    /\ digits_counter = <<>>
    /\ cell_index = 0
    /\ insertion_list = <<>>
    /\ coordinate = <<0, 0>>
    /\ backup_sudoku = s
    /\ last = NoPlacement
    /\ stalled = input
    /\ first = NoOutcome
    /\ sudoku = input
    /\ empty_cells = <<>>
    /\ test_numbers = <<>>
    /\ simple_validation = None
    /\ tick = 0
    /\ pass_digit = 1
    /\ pass_positions = <<>>
    /\ pass_flag = 0
    /\ square_at = 1

Next ==
    \/ Validate
    \/ SolveOnly
    \/ MainSequence
    \/ CheckElement
    \/ CheckElementsEnd
    \/ CheckStackFill
    \/ CheckStackReturnToCheckElements
    \/ AfterChangeProcedure
    \/ CheckStackAndSolveAgain
    \/ Solve
    \/ CheckAvailableDigits
    \/ InsertAndSetChanged
    \/ CheckBlankCells
    \/ Backtracking
    \/ BacktrackingLoop
    \/ TryInsert
    \/ TryInsertEnd
    \/ GetResult

Spec == Init /\ [][Next]_vars

(* Window.solve run again on the same entries once the first run has shown *)
(* its outcome: a new Sudoku and a new SudokuSolver from get_data().        *)
Rerun ==
    /\ pc = "done" /\ result # "none" /\ first = NoOutcome
    /\ first' = [result |-> result, array |-> s.array]
    /\ s' = Sudoku(input)
    /\ counter' = 0
    /\ validation' = None
    /\ result' = "none"
    /\ pc' = "validate"
    /\ ret' = "none"
    /\ ctx' = "main_sequence"
    /\ pending' = <<>>
    /\ elements_list' = 1
    /\ element_index' = 0
    /\ digits_counter' = <<>>
    /\ cell_index' = 0
    /\ insertion_list' = <<>>
    /\ coordinate' = <<0, 0>>
    /\ backup_sudoku' = s'
    /\ last' = NoPlacement
    /\ stalled' = input
    /\ tick' = 1 - tick
    /\ UNCHANGED pass_vars
    /\ UNCHANGED <<input, simple_vars>>

RerunNext == Next \/ Rerun

RerunSpec == Init /\ [][RerunNext]_vars

----------------------------------------------------------------------------
(* sudokusolver.py: the first solver, a plain backtracking over the empty  *)
(* cells in row-major order.  It shares input, pc and cell_index with the  *)
(* session above; a behaviour runs one of the two programs.                *)

(* A mutant: only the row is looked at.                                    *)
validate_number_row_only(array, row, column, number) ==
    \A c \in Idx : array[<<row, c>>] # number

validate_number(array, row, column, number) ==
    LET box_row == (row \div 3) * 3
        box_column == (column \div 3) * 3
        holds(positions) == \E i \in 1..Len(positions) : array[positions[i]] = number
    IN /\ ~holds(SlicePositions(row, row + 1, 0, 9))
       /\ ~holds(SlicePositions(0, 9, column, column + 1))
       /\ ~holds(SlicePositions(box_row, box_row + 3, box_column, box_column + 3))

insert_number(array, row, column, number) == [array EXCEPT ![<<row, column>>] = number]

simple_check_occurences(array) ==
    \A e \in 0..8 : \A number \in 1..9 :
        LET box_row == (e \div 3) * 3
            box_column == 3 * (e - box_row)
            count(positions) ==
                Cardinality({i \in 1..Len(positions) : array[positions[i]] = number})
        IN /\ ~(count(SlicePositions(e, e + 1, 0, 9)) > 1)
           /\ ~(count(SlicePositions(0, 9, e, e + 1)) > 1)
           /\ ~(count(SlicePositions(box_row, box_row + 3,
                                     box_column, box_column + 3)) > 1)

simple_validate_sudoku(array) ==
    IF CountNonzero([i \in 1..81 |-> array[AllPositions[i]]]) = 0 THEN 0
    ELSE IF ~simple_check_occurences(array) THEN -1
    ELSE 1

simple_is_sudoku_completed(array) ==
    /\ CountNonzero([i \in 1..81 |-> array[AllPositions[i]]]) = 81
    /\ simple_check_occurences(array)

engine_vars == <<s, counter, validation, result, ret, ctx, pending, elements_list,
                 element_index, digits_counter, insertion_list, coordinate,
                 backup_sudoku, last, stalled, first>>

(* empty_cells[cell_index]: a negative index counts from the end of the   *)
(* list, an index outside -len..len-1 raises IndexError.                   *)
IndexInList(index, length) == IF index >= 0 THEN index + 1 ELSE length + index + 1

(* solve, line 25: the index is outside the list *)
SimpleIndexError ==
    /\ pc = "simple_solve"
    /\ cell_index < Len(empty_cells)
    /\ cell_index < -Len(empty_cells)
    /\ pc' = "raised"
    /\ tick' = 1 - tick
    /\ UNCHANGED pass_vars
    /\ UNCHANGED <<input, cell_index, engine_vars, simple_vars>>

(* solve, lines 24-38: one turn of the while-loop *)
SimpleSolve ==
    /\ pc = "simple_solve"
    /\ cell_index < Len(empty_cells)
    /\ ~(cell_index < -Len(empty_cells))
    /\ LET coordinates == empty_cells[IndexInList(cell_index, Len(empty_cells))]
           row == coordinates[1]
           column == coordinates[2]
           number == Lookup(test_numbers, coordinates)
       IN IF number = 10
          THEN /\ sudoku' = insert_number(sudoku, row, column, 0)
               /\ test_numbers' = Store(test_numbers, coordinates, 1)
               /\ cell_index' = cell_index - 1
          ELSE IF validate_number(sudoku, row, column, number)
          THEN /\ sudoku' = insert_number(sudoku, row, column, number)
               /\ cell_index' = cell_index + 1
               /\ test_numbers' = Store(test_numbers, coordinates, number + 1)
          ELSE /\ test_numbers' = Store(test_numbers, coordinates, number + 1)
               /\ UNCHANGED <<sudoku, cell_index>>
    /\ tick' = 1 - tick
    /\ UNCHANGED pass_vars
    /\ UNCHANGED <<input, pc, engine_vars, empty_cells, simple_validation>>

(* solve, line 40: the while-loop is over *)
SimpleReturn ==
    /\ pc = "simple_solve"
    /\ ~(cell_index < Len(empty_cells))
    /\ pc' = "returned"
    /\ tick' = 1 - tick
    /\ UNCHANGED pass_vars
    /\ UNCHANGED <<input, cell_index, engine_vars, simple_vars>>

(* The Valid inputs the first solver is run on. *)
SimpleInputs == {Blanked(n) : n \in 0..MaxBlanks} \cup {SwappedGrid, MisplacedGrid}

(* SudokuSolver(array), lines 9-11, and the call of solve() *)
SimpleInit ==
    /\ input \in SimpleInputs
    /\ sudoku = input
    /\ empty_cells = set_zero_positions(input)
    /\ test_numbers = [i \in 1..Len(empty_cells) |-> [k |-> empty_cells[i], v |-> 1]]
    /\ cell_index = 0
    /\ pc = "simple_solve"
    /\ simple_validation = simple_validate_sudoku(input)
    /\ tick = 0
    /\ pass_digit = 1
    /\ pass_positions = <<>>
    /\ pass_flag = 0
    /\ square_at = 1
    /\ s = Sudoku(input)
    /\ counter = 0
    /\ validation = None
    /\ result = "none"
    /\ ret = "none"
    /\ ctx = "none"
    /\ pending = <<>>
    /\ elements_list = 1
    /\ element_index = 0
    /\ digits_counter = <<>>
    /\ insertion_list = <<>>
    /\ coordinate = <<0, 0>>
    /\ backup_sudoku = s
    /\ last = NoPlacement
    /\ stalled = input
    /\ first = NoOutcome

SimpleNext == SimpleIndexError \/ SimpleSolve \/ SimpleReturn

SimpleSpec == SimpleInit /\ [][SimpleNext]_vars

----------------------------------------------------------------------------
(* The two validators side by side, each on an object built from the same  *)
(* grid: Sudoku(grid) with solver.py's SudokuSolver, and sudokusolver.py's *)
(* SudokuSolver(grid).                                                     *)

(* The cells that take every digit 0..9 in turn. *)
EditCells == << <<6,1>>, <<7,2>>, <<0,0>>, <<0,5>>, <<4,0>> >>

NumEdited == 2

RECURSIVE Variants(_, _)
Variants(array, n) ==
    IF n = 0 THEN {array}
    ELSE {[a EXCEPT ![EditCells[n]] = d] : a \in Variants(array, n - 1), d \in 0..9}

ValidatorInputs ==
    Variants(EmptyGrid, NumEdited) \cup Variants(Blanked(MaxBlanks), NumEdited)
        \cup Variants(Solution, NumEdited)

ValidateBoth ==
    /\ pc = "validate_both"
    /\ validation' = validate_sudoku(s)
    /\ simple_validation' = simple_validate_sudoku(sudoku)
    /\ pc' = "validated"
    /\ tick' = 1 - tick
    /\ UNCHANGED pass_vars
    /\ UNCHANGED <<input, s, counter, result, ret, ctx, pending, elements_list,
                   element_index, digits_counter, cell_index, insertion_list,
                   coordinate, backup_sudoku, last, stalled, first,
                   sudoku, empty_cells, test_numbers>>

ValidatorInit ==
    /\ input \in ValidatorInputs
    /\ sudoku = input
    /\ empty_cells = set_zero_positions(input)
    /\ test_numbers = [i \in 1..Len(empty_cells) |-> [k |-> empty_cells[i], v |-> 1]]
    /\ cell_index = 0
    /\ pc = "validate_both"
    /\ simple_validation = None
    /\ tick = 0
    /\ pass_digit = 1
    /\ pass_positions = <<>>
    /\ pass_flag = 0
    /\ square_at = 1
    /\ s = Sudoku(input)
    /\ counter = 0
    /\ validation = None
    /\ result = "none"
    /\ ret = "none"
    /\ ctx = "none"
    /\ pending = <<>>
    /\ elements_list = 1
    /\ element_index = 0
    /\ digits_counter = <<>>
    /\ insertion_list = <<>>
    /\ coordinate = <<0, 0>>
    /\ backup_sudoku = s
    /\ last = NoPlacement
    /\ stalled = input
    /\ first = NoOutcome

ValidatorNext == ValidateBoth

ValidatorSpec == ValidatorInit /\ [][ValidatorNext]_vars

----------------------------------------------------------------------------
(* insert_digit called on its own: any digit (or None) on any cell of a    *)
(* freshly built Sudoku, blank or occupied.                                *)

InsertInputs == {Blanked(n) : n \in 0..MaxBlanks}

(* insert_digit, lines 135-141 *)
InsertDigit ==
    /\ pc = "insert_digit"
    /\ \E cell \in Pos, digit \in Digits \cup {None} :
          Place(cell, digit, "inserted", FALSE)
    /\ tick' = 1 - tick
    /\ UNCHANGED pass_vars
    /\ UNCHANGED <<host_vars, counter, ret, ctx, pending, check_elements_vars,
                   backtracking_vars, simple_vars>>

InsertInit ==
    /\ input \in InsertInputs
    /\ s = Sudoku(input)
    /\ pc = "insert_digit"
    /\ counter = 0
    /\ validation = None
    /\ result = "none"
    /\ ret = "none"
    /\ ctx = "none"
    /\ pending = <<>>
    /\ elements_list = 1
    /\ element_index = 0
    /\ digits_counter = <<>>
    /\ cell_index = 0
    /\ insertion_list = <<>>
    /\ coordinate = <<0, 0>>
    /\ backup_sudoku = s
    /\ last = NoPlacement
    /\ stalled = input
    /\ first = NoOutcome
    /\ sudoku = input
    /\ empty_cells = <<>>
    /\ test_numbers = <<>>
    /\ simple_validation = None
    /\ tick = 0
    /\ pass_digit = 1
    /\ pass_positions = <<>>
    /\ pass_flag = 0
    /\ square_at = 1

InsertNext == InsertDigit

InsertSpec == InsertInit /\ [][InsertNext]_vars

----------------------------------------------------------------------------
(* get_positions_in_squares statement by statement, for any digit on a     *)
(* freshly built Sudoku: the dict of open cells by square, then the loop   *)
(* of update_positions_if_one_dimensional_positions_in_squares for the     *)
(* rows (flag 0) and for the columns (flag 1).                             *)

(* "for square in positions_in_squares", lines 297-299: one turn *)
UpdatePositions ==
    /\ pc = "update_positions"
    /\ square_at <= Len(pass_positions)
    /\ pass_positions' =
          delete_unavailable_coordinates(
              positions_in_one_dimention(pass_positions[square_at].v, pass_flag),
              pass_flag, pass_positions, pass_positions[square_at].k)
    /\ square_at' = square_at + 1
    /\ tick' = 1 - tick
    /\ UNCHANGED <<pass_digit, pass_flag, pc, cell_index, host_vars, s, counter, ret,
                   ctx, pending, check_elements_vars, digits_counter, insertion_list,
                   coordinate, backup_sudoku, last, simple_vars>>

(* lines 252-255: the for-loop is over; the next flag, or the return *)
UpdatePositionsEnd ==
    /\ pc = "update_positions"
    /\ square_at > Len(pass_positions)
    /\ IF pass_flag = 0
       THEN pass_flag' = 1 /\ square_at' = 1 /\ UNCHANGED pc
       ELSE pc' = "returned" /\ UNCHANGED <<pass_flag, square_at>>
    /\ tick' = 1 - tick
    /\ UNCHANGED <<pass_digit, pass_positions, cell_index, host_vars, s, counter, ret,
                   ctx, pending, check_elements_vars, digits_counter, insertion_list,
                   coordinate, backup_sudoku, last, simple_vars>>

(* Solution with five blanks: the open cells for 8 in square 0 are the    *)
(* two blanks of row 0, and square 1 has a blank in row 0 as well.        *)
LineGrid ==
    Edited(Solution, << <<<<0,0>>, 0>>, <<<<0,1>>, 0>>, <<<<0,3>>, 0>>,
                        <<<<1,3>>, 0>>, <<<<3,1>>, 0>> >>)

PositionsInputs == Inputs \cup {LineGrid}

(* lines 250-251 on Sudoku(input), for any digit *)
PositionsInit ==
    /\ input \in PositionsInputs
    /\ s = Sudoku(input)
    /\ pass_digit \in Digits
    /\ pass_positions =
          divide_positions_by_squares(
              s, search_for_available_positions(s, pass_digit), pass_digit)
    /\ pass_flag = 0
    /\ square_at = 1
    /\ pc = "update_positions"
    /\ counter = 0
    /\ validation = None
    /\ result = "none"
    /\ ret = "none"
    /\ ctx = "none"
    /\ pending = <<>>
    /\ elements_list = 1
    /\ element_index = 0
    /\ digits_counter = <<>>
    /\ cell_index = 0
    /\ insertion_list = <<>>
    /\ coordinate = <<0, 0>>
    /\ backup_sudoku = s
    /\ last = NoPlacement
    /\ stalled = input
    /\ first = NoOutcome
    /\ sudoku = input
    /\ empty_cells = <<>>
    /\ test_numbers = <<>>
    /\ simple_validation = None
    /\ tick = 0

PositionsNext == UpdatePositions \/ UpdatePositionsEnd

PositionsSpec == PositionsInit /\ [][PositionsNext]_vars

----------------------------------------------------------------------------
(* What a solved grid is, stated on the cells and not through the code.    *)

SameUnit(p, q) ==
    \/ p[1] = q[1]
    \/ p[2] = q[2]
    \/ (p[1] \div 3 = q[1] \div 3 /\ p[2] \div 3 = q[2] \div 3)

Repeats(array) ==
    \E p \in Pos, q \in Pos :
        p # q /\ SameUnit(p, q) /\ array[p] # 0 /\ array[p] = array[q]

(* No blank, no digit twice in a unit: each of the 27 units is then a     *)
(* permutation of 1..9.                                                    *)
ValidComplete(array) == (\A p \in Pos : array[p] \in Digits) /\ ~Repeats(array)

Extends(array, given) == \A p \in Pos : given[p] # 0 => array[p] = given[p]

Allowed(array, p, d) == \A q \in Pos : (q # p /\ SameUnit(p, q)) => array[q] # d

(* Whether the blanks of an array without repeats can be filled: a        *)
(* search over the first blank cell in row-major order.                    *)
RECURSIVE HasCompletion(_)
HasCompletion(array) ==
    LET blanks == SelectSeq(AllPositions, LAMBDA p : array[p] = 0)
    IN IF blanks = <<>> THEN TRUE
       ELSE \E d \in Digits :
               /\ Allowed(array, Head(blanks), d)
               /\ HasCompletion([array EXCEPT ![Head(blanks)] = d])

(* Window.get_result has shown the outcome of main_sequence. *)
Reported(outcome) == pc = "done" /\ result = outcome

----------------------------------------------------------------------------
(* C1: whenever main_sequence ran on a Valid input and the grid is         *)
(* reported solved, every row, column and box of the grid is a             *)
(* permutation of 1..9.                                                    *)
C1_Soundness == Reported("solved") => ValidComplete(s.array)

(* C2: whenever main_sequence ran on a Valid input that has a valid        *)
(* completion (here: the inputs that Solution completes), it ends with     *)
(* the grid equal to a valid completion of the input.                      *)
C2_Completeness ==
    (pc = "done" /\ result # "none" /\ Extends(Solution, input))
        => (ValidComplete(s.array) /\ Extends(s.array, input))

(* C3: a Valid input without a valid completion is never reported as       *)
(* solved: whatever is reported solved had a completion.                   *)
C3_UnsolvableDetected == Reported("solved") => HasCompletion(input)

----------------------------------------------------------------------------
(* The interpreter runs the next statement as long as the session is not  *)
(* over: over is the shown outcome, the rejected input, or an exception.   *)
Over == pc \in {"done", "rejected", "raised", "returned", "validated"}

Tick == ~Over /\ tick' = 1 - tick

FairSpec == Spec /\ WF_tick(Tick)

(* The statement the session is at can be run. *)
CanStep ==
    CASE pc = "check_elements" -> element_index \in 0..9
      [] pc = "check_stack" ->
            \/ \E e \in s.unchecked_stack : fills(s, e)
            \/ ret \in {"check_elements", "after_change", "solve_again"}
      [] pc \in {"insert_and_set_changed", "try_insert"} -> pending # <<>>
      [] OTHER -> pc \in {"validate", "main_sequence", "solve", "solve_loop",
                          "backtracking", "backtracking_loop", "try_insert_end",
                          "get_result"}

(* try_insert has run at least once: its deep copy holds a later state. *)
Tried == backup_sudoku # Sudoku(input)

(* C4: main_sequence, once called on a Valid input, returns: the session   *)
(* reaches get_result's outcome, and no step raises or repeats forever.    *)
C4_Termination ==
    /\ [](~Over => CanStep)
    /\ (pc = "main_sequence") ~> (pc = "done")

C4_Witness == pc = "done" /\ validation = 1 /\ cell_index < 0 /\ Tried

----------------------------------------------------------------------------
(* C5: the first solver's solve() raises nothing, and once the cursor      *)
(* cell_index has retreated past the first empty cell the search has       *)
(* stopped with every originally empty cell blank again.                   *)
C5_Exhaustion ==
    /\ pc # "raised"
    /\ cell_index < 0 =>
          /\ pc = "returned"
          /\ \A i \in 1..Len(empty_cells) : sudoku[empty_cells[i]] = 0

----------------------------------------------------------------------------
(* The verdict the validators are to give, stated on the cells. *)
Verdict(array) ==
    IF \A p \in Pos : array[p] = 0 THEN 0
    ELSE IF Repeats(array) THEN -1
    ELSE 1

(* C6: on every grid of digits 0..9 both validate_sudoku return 0 when     *)
(* all cells are 0, -1 when a row, column or box repeats a non-zero        *)
(* digit and 1 otherwise, hence the same value.                            *)
C6_Validators ==
    pc = "validated" =>
        (validation = Verdict(input) /\ simple_validation = Verdict(input))

(* A box that repeats a digit while no row and no column does. *)
C6_Witness ==
    /\ pc = "validated" /\ validation = -1 /\ simple_validation = -1
    /\ \A p \in Pos, q \in Pos :
          (p # q /\ input[p] # 0 /\ input[p] = input[q])
              => (p[1] # q[1] /\ p[2] # q[2])

----------------------------------------------------------------------------
(* C7: when validate_sudoku returned Empty (0) or Invalid (-1) the         *)
(* session is over at once: main_sequence is not called, no digit is       *)
(* placed, and the Sudoku object is as constructed from the input.         *)
C7_Gating ==
    validation \in {0, -1} =>
        /\ pc = "rejected"
        /\ s = Sudoku(input)
        /\ counter = 0
        /\ last = NoPlacement
        /\ result = "none"

C7_Witness == pc = "rejected" /\ validation = -1 /\ \E p \in Pos : input[p] # 0

(* C8: on a valid complete input is_sudoku_completed holds, and neither    *)
(* main_sequence nor solve() alone places a digit or changes the grid;     *)
(* main_sequence's outcome is shown as solved.                             *)
C8_Idempotence ==
    ValidComplete(input) =>
        /\ is_sudoku_completed(s)
        /\ s.array = input
        /\ last = NoPlacement
        /\ s.zero_positions = <<>>
        /\ (pc = "done" /\ ctx # "solve") => result = "solved"

C8_Witness == ValidComplete(input) /\ Reported("solved")

(* The backtracking loop has ended with the cursor before the first cell. *)
Exhausted == pc = "done" /\ result = "unsolvable" /\ cell_index < 0

(* C9 as claimed: after an exhausted search every cell is as in the        *)
(* input.                                                                  *)
C9_GridIsInput == Exhausted => s.array = input

(* C9: after an exhausted search the grid is the one backtracking() was    *)
(* called with: the input and the digits placed before the search.         *)
C9_GridAsBeforeSearch ==
    Exhausted => (s.array = stalled /\ Extends(s.array, input))

C9_Witness == Exhausted /\ Tried /\ s.array # input

----------------------------------------------------------------------------
Owns(e, cell) ==
    CASE e[1] = "rows" -> e[2] = cell[1]
      [] e[1] = "columns" -> e[2] = cell[2]
      [] e[1] = "squares" -> e[2] = 3 * (cell[1] \div 3) + (cell[2] \div 3)

PlaceEffect(a, b, cell, digit) ==
    /\ \A p \in Pos : b.array[p] = IF p = cell THEN digit ELSE a.array[p]
    /\ Range(b.zero_positions) = Range(a.zero_positions) \ {cell}
    /\ Len(b.zero_positions) = Len(a.zero_positions) - 1
    /\ \A d \in 0..9 :
          Lookup(b.elements_count, d) =
              Lookup(a.elements_count, d) + (IF d = digit THEN 1 ELSE 0)
    /\ \A e \in Elements :
          IF Owns(e, cell)
          THEN /\ Element(b, e).digits = Element(a, e).digits + 1
               /\ Element(b, e).completed = (Element(b, e).digits = 9)
               /\ e \in b.unchecked_stack
          ELSE /\ Element(b, e) = Element(a, e)
               /\ e \in b.unchecked_stack <=> e \in a.unchecked_stack

(* C10: a step that places a digit 1..9 on a blank cell sets that cell,    *)
(* takes it off zero_positions, adds one to the digit's count and to the   *)
(* digit counts of the cell's row, column and square (completed at 9),     *)
(* pushes these three on unchecked_stack, and changes no other cell,       *)
(* count or element.                                                       *)
C10_PlaceEffect ==
    [][(last' # NoPlacement /\ last'.digit \in Digits /\ s.array[last'.cell] = 0)
          => PlaceEffect(s, s', last'.cell, last'.digit)]_vars

C10_Witness ==
    /\ last # NoPlacement /\ pc # "raised"
    /\ s.rows[last.cell[1]].completed
    /\ ~s.columns[last.cell[2]].completed

----------------------------------------------------------------------------
(* C11: insert_digit on a cell that is not blank fails with an error and   *)
(* places nothing: the call ends raised and the Sudoku object, the cell    *)
(* and the counts included, is as it was before the call.                  *)
C11_OccupiedCellKept ==
    (pc # "insert_digit" /\ last # NoPlacement /\ input[last.cell] # 0)
        => (pc = "raised" /\ s = Sudoku(input))

----------------------------------------------------------------------------
(* C12: the outcome of main_sequence is a function of the input grid: a    *)
(* second run on the same input ends with the same verdict and the same    *)
(* grid as the first, whatever order check_stack takes the elements in.    *)
C12_Determinism ==
    (pc = "done" /\ result # "none" /\ first # NoOutcome)
        => (result = first.result /\ s.array = first.array)

----------------------------------------------------------------------------
(* The propagation of main_sequence or of solve() alone is running or has  *)
(* ended: no trial of the backtracking search has been inserted yet.       *)
Propagating == ctx # "try_insert" /\ pc # "raised"

(* C13: starting from a Valid input, the propagator never places a digit   *)
(* into a cell whose row, column or box already holds it: in every state   *)
(* reached by propagation no unit repeats a non-zero digit.                *)
C13_NoDuplicatePlaced ==
    (Propagating /\ ~Repeats(input)) => ~Repeats(s.array)

----------------------------------------------------------------------------
(* C14: in every state of a session, the one built by Sudoku(array)        *)
(* included, each row, column and square has completed true exactly when   *)
(* its digits count is 9.                                                  *)
C14_CompletedIffNine ==
    \A e \in Elements : Element(s, e).completed <=> (Element(s, e).digits = 9)

----------------------------------------------------------------------------
(* Some element's completed flag goes from true to false in this step. *)
FlagDropped == \E e \in Elements : Element(s, e).completed /\ ~Element(s', e).completed

(* C15 as claimed: a completed flag that is true stays true in every later *)
(* state, the states after an abandoned try_insert branch included.        *)
C15_NeverUncompleted == [][~FlagDropped]_vars

(* C15: a completed flag that is true stays true, except that try_insert,  *)
(* when it abandons its branch (the grid is not completed), puts back its  *)
(* deep copy and with it the flags as they were when the branch started.   *)
C15_UncompletedOnlyByRestore ==
    [][FlagDropped =>
          /\ pc = "try_insert_end" /\ ~is_sudoku_completed(s)
          /\ s' = backup_sudoku]_vars

(* try_insert is about to abandon a branch that completed an element. *)
C15_Witness ==
    /\ pc = "try_insert_end" /\ ~is_sudoku_completed(s)
    /\ \E e \in Elements : Element(s, e).completed /\ ~Element(backup_sudoku, e).completed

----------------------------------------------------------------------------
(* C16: in every state between placements, the occurrence counts of the    *)
(* digits 1-9 and the number of blank cells in zero_positions add up to    *)
(* 81.                                                                     *)
C16_CountInvariant ==
    Sum([d \in 1..9 |-> Lookup(s.elements_count, d)]) + Len(s.zero_positions) = 81

(* A digit has been placed, and a failed try_insert has been rolled back. *)
C16_Witness ==
    /\ pc = "backtracking_loop" /\ Tried /\ s = backup_sudoku
    /\ s.array # input
    /\ Len(s.zero_positions) > 0

----------------------------------------------------------------------------
(* The open cells of the square the loop is at all lie on this row         *)
(* (pass_flag 0) or column (pass_flag 1), and there are two or more.       *)
Claims(line) ==
    LET open == pass_positions[square_at].v
    IN /\ Len(open) >= 2
       /\ \A i \in 1..Len(open) : open[i][pass_flag + 1] = line

(* C17: when the open cells of a square (two or more) all lie in one row   *)
(* r, for any r in 0..8, the turn of the loop for that square removes      *)
(* every open cell of row r from the lists of all other squares; the same  *)
(* for a column c in the pass for the columns.                             *)
C17_LineReduction ==
    [][(pc = "update_positions" /\ square_at <= Len(pass_positions)) =>
          \A line \in Idx :
              Claims(line) =>
                  \A n \in 1..Len(pass_positions') :
                      n # square_at =>
                          \A i \in 1..Len(pass_positions'[n].v) :
                              pass_positions'[n].v[i][pass_flag + 1] # line]_vars

----------------------------------------------------------------------------
(* pre_solving_check() and solve() have returned to main_sequence: the     *)
(* propagation on a Valid input has ended, Stalled or Completed.           *)
PropagationEnded == pc = "backtracking" /\ ctx = "main_sequence" /\ validation = 1

(* C18: whenever check_stack has returned unchecked_stack is empty, and    *)
(* when the propagation on a Valid input has ended no row, column or       *)
(* square is left with exactly eight filled cells and one blank.           *)
C18_QueueDrained ==
    /\ pc \in {"solve", "solve_loop", "backtracking", "backtracking_loop",
                "try_insert_end", "get_result", "done"}
          => s.unchecked_stack = {}
    /\ PropagationEnded
          => \A e \in Elements : CountNonzero(ElementArray(s.array, e)) # 8

----------------------------------------------------------------------------
(* The propagation on a Valid input has ended with blank cells left.       *)
Stalled == PropagationEnded /\ Len(s.zero_positions) > 0

Candidates(cell) == Lookup(s.possible_digits_in_cells, cell)

(* Some valid completion of the array has the digit in the cell.           *)
TakesIn(array, cell, digit) ==
    /\ ~Repeats(array)
    /\ Allowed(array, cell, digit)
    /\ HasCompletion([array EXCEPT ![cell] = digit])

(* C19: when the propagation on a Valid input ends Stalled, the candidate  *)
(* list of every blank cell holds only digits absent from the cell's row,  *)
(* column and box, holds no digit twice, holds the digit the cell takes in *)
(* each valid completion of the grid, and is not of length one.            *)
C19_CandidateMap ==
    Stalled =>
        \A cell \in Pos : s.array[cell] = 0 =>
            LET list == Candidates(cell)
            IN /\ \A i \in 1..Len(list) : Allowed(s.array, cell, list[i])
               /\ \A i, j \in 1..Len(list) : list[i] = list[j] => i = j
               /\ \A d \in Digits : TakesIn(s.array, cell, d) => d \in Range(list)
               /\ Len(list) # 1

(* A stalled grid that has a completion, with a blank cell whose list does *)
(* not hold every digit absent from its row, column and box.               *)
C19_Witness ==
    /\ Stalled
    /\ ~Repeats(s.array)
    /\ HasCompletion(s.array)
    /\ \E cell \in Pos, d \in Digits :
          /\ s.array[cell] = 0
          /\ Allowed(s.array, cell, d)
          /\ d \notin Range(Candidates(cell))
          /\ Len(Candidates(cell)) >= 2

----------------------------------------------------------------------------
(* The cells in the order in which backtracking() listed them in           *)
(* digits_counter when the search started.                                 *)
SearchOrder == [i \in 1..Len(digits_counter) |-> digits_counter[i].k]

(* At every turn of the search loop the cursor walks the list of blank     *)
(* cells made when the search started, and along that list the candidate   *)
(* lists never get shorter.                                                *)
OrderKept ==
    pc = "backtracking_loop" =>
        /\ s.zero_positions = SearchOrder
        /\ \A p \in Pos : s.array[p] = 0 <=> p \in Range(SearchOrder)
        /\ \A i, j \in 1..Len(SearchOrder) :
              i < j => Len(Candidates(SearchOrder[i])) <= Len(Candidates(SearchOrder[j]))

DeadEnd == \E p \in Pos : s.array[p] = 0 /\ Candidates(p) = <<>>

(* With a blank cell that has no candidate the turn of the loop gives up   *)
(* on the first cell: the cursor falls below zero, nothing was placed or   *)
(* handed to try_insert, and the grid is reported as not solved.           *)
DeadEndStep ==
    (pc = "backtracking_loop" /\ DeadEnd) =>
        /\ pc' = "get_result"
        /\ cell_index = 0 /\ cell_index' < 0
        /\ Candidates(s.zero_positions[1]) = <<>>
        /\ s' = s /\ insertion_list' = <<>>
        /\ ~is_sudoku_completed(s')

(* C20: backtracking visits the blank cells in non-decreasing order of     *)
(* candidate-list size, an order fixed once when the search starts; and if *)
(* some blank cell has an empty candidate list the search ends in failure  *)
(* on that cell without tentatively placing any digit.                     *)
C20_SearchOrder == []OrderKept /\ [][DeadEndStep]_vars

(* A search has given up on a cell without candidates that the sort had   *)
(* brought to the front of blank cells that have candidates.               *)
C20_Witness ==
    /\ pc = "get_result" /\ cell_index < 0 /\ DeadEnd
    /\ Len(Candidates(SearchOrder[1])) < Len(Candidates(SearchOrder[Len(SearchOrder)]))
    /\ s.zero_positions # Sudoku(s.array).zero_positions
    /\ s.array = input

----------------------------------------------------------------------------
(* The grid, the blank cells, the digit counts, every element's digits     *)
(* and completed, the stack and the candidate dictionary are the same.     *)
SameSudoku(before, after) ==
    /\ after.array = before.array
    /\ after.zero_positions = before.zero_positions
    /\ after.elements_count = before.elements_count
    /\ \A e \in Elements : Element(after, e) = Element(before, e)
    /\ after.unchecked_stack = before.unchecked_stack
    /\ after.possible_digits_in_cells = before.possible_digits_in_cells

(* A turn of the search loop that calls check_occurences_in_potential_array. *)
ChecksOccurences ==
    /\ pc = "backtracking_loop"
    /\ cell_index < Len(s.zero_positions)
    /\ Lookup(digits_counter, s.zero_positions[cell_index + 1])
          < Len(Candidates(s.zero_positions[cell_index + 1]))

(* Between the call of try_insert and its return. *)
InTrial == ctx = "try_insert" /\ pc \notin {"backtracking_loop", "get_result", "done", "raised"}

(* C21: whenever a backtracking branch is abandoned, by try_insert         *)
(* returning False or by check_occurences_in_potential_array returning     *)
(* either value, the grid, the blank cells, the digit counts, every        *)
(* unit's fill count and completion flag, the dirty-unit queue and the     *)
(* candidate map are exactly what they were before that call.              *)
C21_FullRollback ==
    [][/\ ChecksOccurences => SameSudoku(s, s')
       /\ (ChecksOccurences /\ pc' = "try_insert") => backup_sudoku' = s
       /\ InTrial => backup_sudoku' = backup_sudoku
       /\ (pc = "try_insert_end" /\ ~is_sudoku_completed(s))
             => SameSudoku(backup_sudoku, s')]_vars

(* try_insert is about to return False with a grid, blank cells, counts,   *)
(* elements and candidate dictionary that the trial has changed.           *)
C21_Witness ==
    /\ pc = "try_insert_end" /\ ~is_sudoku_completed(s)
    /\ s.array # backup_sudoku.array
    /\ s.zero_positions # backup_sudoku.zero_positions
    /\ s.elements_count # backup_sudoku.elements_count
    /\ \E e \in Elements : Element(s, e).digits # Element(backup_sudoku, e).digits
    /\ s.possible_digits_in_cells # backup_sudoku.possible_digits_in_cells

----------------------------------------------------------------------------
SimpleFairSpec == SimpleSpec /\ WF_tick(Tick)

(* The inputs of the first solver that have a valid completion.            *)
CompletableInputs == {array \in SimpleInputs : HasCompletion(array)}

(* The input of the first solver is Valid and has a valid completion.      *)
Solvable == simple_validation = 1 /\ input \in CompletableInputs

(* The digit is in no cell of the row, the column or the box of the cell.  *)
Absent(array, cell, digit) == \A q \in Pos : SameUnit(cell, q) => array[q] # digit

SolvedOnReturn ==
    Solvable =>
        /\ pc # "raised"
        /\ Extends(sudoku, input)
        /\ pc = "returned" => ValidComplete(sudoku)

WrittenAfterValidation ==
    \A cell \in Pos :
        (sudoku'[cell] # sudoku[cell] /\ sudoku'[cell] # 0)
            => Absent(sudoku, cell, sudoku'[cell])

(* C22: for every Valid input that has a valid completion the first        *)
(* solver's solve() returns, with every cell holding a digit 1-9, no digit *)
(* repeated in a row, column or box and every given of the input           *)
(* unchanged; and at every step a digit is written into a cell only when   *)
(* it is absent from the cell's row, column and box.                       *)
C22_SimpleSolver ==
    /\ []SolvedOnReturn
    /\ [][WrittenAfterValidation]_vars
    /\ (Solvable /\ pc = "simple_solve") ~> (pc = "returned")

(* solve() has returned on an input with a completion after filling blank  *)
(* cells, among them one that did not get the first digit tried.           *)
C22_Witness ==
    /\ pc = "returned" /\ Solvable
    /\ sudoku # input
    /\ \E i \in 1..Len(empty_cells) : sudoku[empty_cells[i]] > 1

----------------------------------------------------------------------------
(* main_sequence is running, or has run, on an input that                  *)
(* validate_sudoku found Valid.                                            *)
MainSequenceRun == validation = 1 /\ ctx \in {"main_sequence", "try_insert"}

(* zero_positions lists, once each, exactly the cells that hold 0.         *)
BlanksAreZeros ==
    /\ Range(s.zero_positions) = {p \in Pos : s.array[p] = 0}
    /\ \A i, j \in 1..Len(s.zero_positions) :
          s.zero_positions[i] = s.zero_positions[j] => i = j

(* The call of insert_digit made by this step has a cell that holds 0 and  *)
(* is listed in zero_positions.                                            *)
TargetsBlank ==
    last' # NoPlacement =>
        /\ s.array[last'.cell] = 0
        /\ last'.cell \in Range(s.zero_positions)

----------------------------------------------------------------------------
(* The array check_occurences_in_potential_array builds at this turn of    *)
(* the search loop (lines 593-594); the array itself at any other step.    *)
TentativeGrid ==
    IF ChecksOccurences
    THEN LET coord == s.zero_positions[cell_index + 1]
             kept == SelectSeq(insertion_list, LAMBDA i : i[1] # coord)
             digit == Candidates(coord)[Lookup(digits_counter, coord) + 1]
         IN potential_array(s.array, Append(kept, <<coord, digit>>))
    ELSE s.array

(* C24: every cell that is non-zero in the input keeps its digit in every  *)
(* state reached by main_sequence, in the tentative grids built inside     *)
(* backtracking as well, so a solved grid agrees with the input on all     *)
(* given cells.                                                            *)
C24_GivensKept ==
    MainSequenceRun =>
        /\ Extends(s.array, input)
        /\ Extends(TentativeGrid, input)
        /\ Extends(backup_sudoku.array, input)

(* A grid with givens and blanks has been solved by the search, after a    *)
(* trial that was abandoned.                                               *)
C24_Witness ==
    /\ MainSequenceRun /\ Reported("solved")
    /\ insertion_list # <<>>
    /\ \E i \in 1..Len(digits_counter) : digits_counter[i].v > 0
    /\ \E p \in Pos : input[p] # 0
    /\ \E p \in Pos : input[p] = 0 /\ s.array[p] # 0

====
